---- MODULE Spec2Model ----
(***************************************************************************)
(* Model of the ZTF star/galaxy image classification notebooks:            *)
(*   data_normalization.ipynb              flatten, normalise, persist     *)
(*   star_gal_MuyGPs_classification.ipynb  reload, encode, classify        *)
(* The notebooks are modelled under "Run All": the cells execute top to    *)
(* bottom and the first uncaught exception stops the run.                  *)
(***************************************************************************)
EXTENDS Integers, Sequences, FiniteSets, TLC

(***************************************************************************)
(* Bounds of the model.                                                    *)
(***************************************************************************)
\* most files in the cutouts/ directory
MaxFiles == 2
\* the brightest raw pixel value
MaxPixel == 2
\* longest label sequence handed to generate_onehot_value
MaxLabels == 4
\* labels handed to generate_onehot_value range over 0..MaxLabel
MaxLabel == 2

\* most rows of a table handed to the classification notebook
MaxRows == 4
\* random.randint(0, 10000) draws from 0..MaxSeed
MaxSeed == 1

\* cutouts of each type the generation loop is asked for
MaxCutouts == 2
\* most objects of each type in ra_dec, most objects in the blend-cut catalogue
MaxObjects == 3

\* rows and columns of a cutout grid (the notebooks' cutouts are 20 x 20)
ImageShape == <<1, 2>>

\* raw pixel values: a negative one, zero, one and the brightest
PixelValues == {0 - 1, 0, 1, MaxPixel}

(***************************************************************************)
(* numpy float64 values.  A value is a record                              *)
(*   k = "rat" : the rational n/d (d > 0, lowest terms)                    *)
(*   k = "log" : log10(n/d) for a positive rational n/d # 1                *)
(*   k = "lr"  : log10(n/d) / log10(bn/bd), both logarithms non-zero       *)
(*   k = "nan", "inf", "ninf" : IEEE not-a-number and the two infinities   *)
(* Finite arithmetic is exact; rounding is not modelled.                   *)
(***************************************************************************)
Abs(i) == IF i < 0 THEN 0 - i ELSE i

RECURSIVE Gcd(_, _)
Gcd(a, b) == IF b = 0 THEN a ELSE Gcd(b, a % b)

Val(kind, n, d, bn, bd) == [k |-> kind, n |-> n, d |-> d, bn |-> bn, bd |-> bd]

NaN == Val("nan", 0, 0, 0, 0)
PosInf == Val("inf", 0, 0, 0, 0)
NegInf == Val("ninf", 0, 0, 0, 0)

\* the rational n/d, d # 0, in lowest terms with a positive denominator
Rat(n, d) ==
    LET g == Gcd(Abs(n), Abs(d))
        s == IF d < 0 THEN 0 - 1 ELSE 1
    IN  Val("rat", (s * n) \div g, (s * d) \div g, 0, 0)

Num(i) == Rat(i, 1)
Zero == Num(0)
One == Num(1)

IsRat(x) == x.k = "rat"
IsZero(x) == x.k = "rat" /\ x.n = 0
\* a value log10 can return for a positive argument: 0 = log10(1), or "log"
IsLog(x) == x.k = "log" \/ IsZero(x)
IsFinite(x) == x.k \in {"rat", "log", "lr"}

\* the argument q = <<n, d>> of a logarithm value log10(q)
LogArg(x) == IF x.k = "log" THEN <<x.n, x.d>> ELSE <<1, 1>>

\* log10 of the positive rational n/d
LogOf(n, d) ==
    LET r == Rat(n, d)
    IN  IF r.n = r.d THEN Zero ELSE Val("log", r.n, r.d, 0, 0)

\* -1, 0 or 1: the sign of a value other than nan
Sign(x) ==
    CASE x.k = "inf" -> 1
      [] x.k = "ninf" -> 0 - 1
      [] x.k = "rat" -> IF x.n > 0 THEN 1 ELSE IF x.n < 0 THEN 0 - 1 ELSE 0
      [] x.k = "log" -> IF x.n > x.d THEN 1 ELSE 0 - 1
      [] x.k = "lr" -> (IF x.n > x.d THEN 1 ELSE 0 - 1)
                         * (IF x.bn > x.bd THEN 1 ELSE 0 - 1)

\* np.log10 of a raw value: -inf at 0 and nan below 0 (a RuntimeWarning, no
\* exception)
Log10(x) ==
    CASE x.k = "nan" -> NaN
      [] x.k = "inf" -> PosInf
      [] x.k = "ninf" -> NaN
      [] x.k = "rat" -> IF x.n > 0 THEN LogOf(x.n, x.d)
                        ELSE IF x.n = 0 THEN NegInf ELSE NaN

\* a - b in float64
Sub(a, b) ==
    CASE a.k = "nan" \/ b.k = "nan" -> NaN
      [] a.k \in {"inf", "ninf"} /\ b.k = a.k -> NaN
      [] a.k \in {"inf", "ninf"} /\ b.k # a.k -> a
      [] IsFinite(a) /\ b.k = "inf" -> NegInf
      [] IsFinite(a) /\ b.k = "ninf" -> PosInf
      [] IsRat(a) /\ IsRat(b) -> Rat(a.n * b.d - b.n * a.d, a.d * b.d)
      [] IsLog(a) /\ IsLog(b) /\ ~(IsRat(a) /\ IsRat(b)) ->
            LogOf(LogArg(a)[1] * LogArg(b)[2], LogArg(a)[2] * LogArg(b)[1])

\* a / b in float64: a division by zero gives nan or an infinity (a
\* RuntimeWarning, no exception)
Div(a, b) ==
    CASE a.k = "nan" \/ b.k = "nan" -> NaN
      [] a.k \in {"inf", "ninf"} /\ b.k \in {"inf", "ninf"} -> NaN
      [] a.k \in {"inf", "ninf"} /\ IsFinite(b) ->
            IF (Sign(a) < 0) = (Sign(b) < 0) THEN PosInf ELSE NegInf
      [] IsFinite(a) /\ b.k \in {"inf", "ninf"} -> Zero
      [] IsFinite(a) /\ IsZero(b) ->
            IF Sign(a) = 0 THEN NaN ELSE IF Sign(a) > 0 THEN PosInf ELSE NegInf
      [] IsFinite(a) /\ IsFinite(b) /\ ~IsZero(b) /\ IsZero(a) -> Zero
      [] IsRat(a) /\ IsRat(b) /\ ~IsZero(b) /\ ~IsZero(a) ->
            Rat(a.n * b.d, a.d * b.n)
      [] a.k = "log" /\ b.k = "log" ->
            IF <<a.n, a.d>> = <<b.n, b.d>> THEN One
            ELSE Val("lr", a.n, a.d, b.n, b.d)

\* a < b for values other than nan, both rational or both logarithms
Less(a, b) ==
    CASE a.k = "ninf" -> b.k # "ninf"
      [] a.k = "inf" -> FALSE
      [] IsFinite(a) /\ b.k = "inf" -> TRUE
      [] IsFinite(a) /\ b.k = "ninf" -> FALSE
      [] IsRat(a) /\ IsRat(b) -> a.n * b.d < b.n * a.d
      [] IsLog(a) /\ IsLog(b) /\ ~(IsRat(a) /\ IsRat(b)) ->
            LogArg(a)[1] * LogArg(b)[2] < LogArg(b)[1] * LogArg(a)[2]

Range(s) == {s[i] : i \in 1..Len(s)}

\* np.min / np.amin of a non-empty array: nan when any element is nan
Min(s) ==
    IF NaN \in Range(s) THEN NaN
    ELSE CHOOSE x \in Range(s) : \A y \in Range(s) : ~Less(y, x)

\* np.max / np.amax of a non-empty array
Max(s) ==
    IF NaN \in Range(s) THEN NaN
    ELSE CHOOSE x \in Range(s) : \A y \in Range(s) : ~Less(x, y)

(***************************************************************************)
(* File names are sequences of characters, so that startswith and endswith *)
(* are computed on the text of the name.                                   *)
(***************************************************************************)
StartsWith(s, p) == Len(s) >= Len(p) /\ SubSeq(s, 1, Len(p)) = p
EndsWith(s, p) == Len(s) >= Len(p) /\ SubSeq(s, Len(s) - Len(p) + 1, Len(s)) = p

Str_star == <<"s", "t", "a", "r">>
Str_gal == <<"g", "a", "l">>
Str_galaxy == <<"g", "a", "l", "a", "x", "y">>
Ext_fits == <<".", "f", "i", "t", "s">>

\* names a cutouts/ directory may hold: the generator's star_<n>.fits and
\* galaxy_<n>.fits, a gal_<n>.fits, and a file that is no cutout
FileNames ==
    { Str_star \o <<"_", "0">> \o Ext_fits,
      Str_galaxy \o <<"_", "0">> \o Ext_fits,
      Str_gal \o <<"_", "1">> \o Ext_fits,
      Str_star \o <<"_", "0", ".", "t", "x", "t">> }

\* the 2-D pixel grids of shape ImageShape
Images == [1..ImageShape[1] -> [1..ImageShape[2] -> PixelValues]]

\* ndarray.flatten: the rows of the grid one after the other, as floats
RECURSIVE flatten(_)
flatten(image) ==
    IF image = <<>> THEN <<>>
    ELSE [i \in 1..Len(Head(image)) |-> Num(Head(image)[i])] \o flatten(Tail(image))

(***************************************************************************)
(* The five normalisation techniques.  min_all and max_all are the         *)
(* notebook globals min_pixel_all and max_pixel_all.                       *)
(***************************************************************************)
\* norm_1 with the pixels log10 has no value for left out
norm_1_PositiveOnly(data) ==
    LET positive == SelectSeq(data, LAMBDA x : IsRat(x) /\ x.n > 0)
        data_log == [i \in 1..Len(positive) |-> Log10(positive[i])]
    IN  [i \in 1..Len(positive) |-> Sub(data_log[i], Min(data_log))]

norm_1(data) ==
    LET data_log == [i \in 1..Len(data) |-> Log10(data[i])]
        min_log_data == Min(data_log)
    IN  [i \in 1..Len(data) |-> Sub(data_log[i], min_log_data)]

norm_2(data) ==
    LET min_data == Min(data)
        max_data == Max(data)
    IN  [i \in 1..Len(data) |-> Div(Sub(data[i], min_data), Sub(max_data, min_data))]

\* norm_3 reading the extrema of the sample instead of the corpus
norm_3_SampleExtrema(data, min_all, max_all) ==
    [i \in 1..Len(data) |-> Div(Sub(data[i], Min(data)), Sub(Max(data), Min(data)))]

norm_3(data, min_all, max_all) ==
    [i \in 1..Len(data) |-> Div(Sub(data[i], min_all), Sub(max_all, min_all))]

\* norm_4 subtracting the minimum of the corpus instead of the sample's
norm_4_CorpusMinimum(data, min_all, max_all) ==
    [i \in 1..Len(data) |-> Div(Sub(data[i], min_all), max_all)]

norm_4(data, min_all, max_all) ==
    LET min_data == Min(data)
    IN  [i \in 1..Len(data) |-> Div(Sub(data[i], min_data), max_all)]

norm_5(data, min_all, max_all) ==
    LET log_data == [i \in 1..Len(data) |-> Log10(data[i])]
        log_max_pixel == Log10(max_all)
        min_data == Min(log_data)
    IN  [i \in 1..Len(data) |-> Div(Sub(log_data[i], min_data), log_max_pixel)]

\* technique with technique 2 reading the global extrema, as technique 3 does
technique_GlobalExtrema(num, data, min_all, max_all) ==
    CASE num = 1 -> norm_1(data)
      [] num = 2 -> norm_3(data, min_all, max_all)
      [] num = 3 -> norm_3(data, min_all, max_all)
      [] num = 4 -> norm_4(data, min_all, max_all)
      [] num = 5 -> norm_5(data, min_all, max_all)

\* techniques[num] applied to one row's pixels
technique(num, data, min_all, max_all) ==
    CASE num = 1 -> norm_1(data)
      [] num = 2 -> norm_2(data)
      [] num = 3 -> norm_3(data, min_all, max_all)
      [] num = 4 -> norm_4(data, min_all, max_all)
      [] num = 5 -> norm_5(data, min_all, max_all)

(***************************************************************************)
(* data_normalization.ipynb, cell by cell.                                 *)
(***************************************************************************)
\* the listing cell's loop over os.listdir(cutout_path), from position i on
RECURSIVE ListCutouts(_, _, _)
ListCutouts(listing, i, acc) ==
    IF i > Len(listing) THEN acc
    ELSE LET file == listing[i]
         IN  IF EndsWith(file, Ext_fits)
             THEN ListCutouts(listing, i + 1,
                    [cutout_files |-> Append(acc.cutout_files, file),
                     gals |-> IF StartsWith(file, Str_gal) THEN acc.gals + 1 ELSE acc.gals,
                     stars |-> IF ~StartsWith(file, Str_gal) /\ StartsWith(file, Str_star)
                               THEN acc.stars + 1 ELSE acc.stars])
             ELSE ListCutouts(listing, i + 1, acc)

\* the values random.Random(128)._randbelow(i + 1) returns for i = n-1 down to
\* 1 when a list of n elements is shuffled (Mersenne Twister seeded with 128)
RandBelow128(n) ==
    CASE n <= 1 -> <<>>
      [] n = 2 -> <<0>>
      [] n = 3 -> <<0, 1>>
      [] n = 4 -> <<1, 1, 1>>
      [] n = 5 -> <<1, 3, 2, 1>>
      [] n = 6 -> <<1, 3, 2, 0, 1>>

Swap(x, a, b) == [x EXCEPT ![a] = x[b], ![b] = x[a]]

\* random.shuffle: for i in reversed(range(1, len(x))): j = randbelow(i + 1);
\* x[i], x[j] = x[j], x[i]   (k counts the draws; positions are 0-based)
RECURSIVE ShuffleFrom(_, _, _)
ShuffleFrom(x, k, draws) ==
    IF k > Len(draws) THEN x
    ELSE ShuffleFrom(Swap(x, (Len(x) - k) + 1, draws[k] + 1), k + 1, draws)

\* random.Random(128).shuffle(x)
Shuffle128(x) == ShuffleFrom(x, 1, RandBelow128(Len(x)))

\* the label the flatten loop leaves in obj_id for `file`: the two prefix
\* tests in turn, and the previous value when neither matches
LabelAfter(file, prev) ==
    LET a == IF StartsWith(file, Str_star) THEN <<Zero>> ELSE prev
    IN  IF StartsWith(file, Str_galaxy) THEN <<One>> ELSE a

\* DataFrame[:5].to_numpy().flatten()
RECURSIVE Concat(_)
Concat(rows) == IF rows = <<>> THEN <<>> ELSE Head(rows) \o Concat(Tail(rows))

FirstRows(table, n) == SubSeq(table, 1, IF Len(table) < n THEN Len(table) ELSE n)

PlotColumn(name, table) == [name |-> name, values |-> Concat(FirstRows(table, 5))]

\* NormalizeTable with the normalised rows inserted at the front
NormalizeTable_Prepend(num, table, min_all, max_all) ==
    [i \in 1..Len(table) |->
        LET row == table[(Len(table) - i) + 1]
        IN  SubSeq(row, 1, 1) \o technique(num, Tail(row), min_all, max_all)]

\* NormalizeTable with the label replaced by the running row number
NormalizeTable_Renumber(num, table, min_all, max_all) ==
    [i \in 1..Len(table) |->
        <<Num(i)>> \o technique(num, Tail(table[i]), min_all, max_all)]

\* the technique loop's inner loop: one output row per row of gal_star, in
\* order, the label copied and the technique applied to the pixels
NormalizeTable(num, table, min_all, max_all) ==
    [i \in 1..Len(table) |->
        LET raw_data == Tail(table[i])
            row_id == SubSeq(table[i], 1, 1)
        IN  row_id \o technique(num, raw_data, min_all, max_all)]

(***************************************************************************)
(* CSV text.  A line is a sequence of fields; a field is the text pandas   *)
(* writes for a float: empty for nan, inf, -inf, or the digits of a finite *)
(* value (kept as the value: the repr of a float reads back as itself).    *)
(***************************************************************************)
Field(text, x) == [text |-> text, val |-> x]

FormatFloat(x) ==
    CASE x.k = "nan" -> Field("", Zero)
      [] x.k = "inf" -> Field("inf", Zero)
      [] x.k = "ninf" -> Field("-inf", Zero)
      [] IsFinite(x) -> Field("digits", x)

ParseFloat(f) ==
    CASE f.text = "" -> NaN
      [] f.text = "inf" -> PosInf
      [] f.text = "-inf" -> NegInf
      [] f.text = "digits" -> f.val

\* DataFrame.to_csv(path, header=False, index=False): one line per row
to_csv(table) ==
    [i \in 1..Len(table) |-> [j \in 1..Len(table[i]) |-> FormatFloat(table[i][j])]]

\* pd.read_csv(path) with its default header='infer': the first line names
\* the columns, the lines after it are the data rows
read_csv(lines) ==
    [i \in 1..(Len(lines) - 1) |->
        [j \in 1..Len(lines[i + 1]) |-> ParseFloat(lines[i + 1][j])]]

(***************************************************************************)
(* State.                                                                  *)
(***************************************************************************)
VARIABLES
    dir,            \* cutouts/: the files in the order os.listdir returns them
    pc,             \* the cell (or loop position) that runs next
    error,          \* the exception that stopped the run, "" when none
    cutout_files, gals, stars,
    gal_star, min_pixel, max_pixel, plot_data,
    obj_id,         \* <<>> while the name is unbound, else <<label>>
    idx,            \* iterations of the flatten loop done
    min_pixel_all, max_pixel_all,   \* <<>> while unbound, else <<value>>
    num,            \* techniques applied so far
    csv,            \* the artifacts on disk: 0 = raw_image_data.csv, t = norm_t_image_data.csv
    written,        \* the artifacts that exist
    data_files,     \* the six tables the classification notebook reads
    values, onehot, val_pos, returned,   \* one call of generate_onehot_value
    runs,           \* two executions side by side
    trial,          \* one call of run_classifier
    single,         \* the single-run loop over data_files
    sweep,          \* the accuracy sweep
    gen,            \* the cutout generation loop
    blend           \* the blend cut of the catalogue

normVars == <<dir, pc, error, cutout_files, gals, stars, gal_star, min_pixel,
              max_pixel, plot_data, obj_id, idx, min_pixel_all, max_pixel_all,
              num, csv, written, data_files>>
onehotVars == <<values, onehot, val_pos, returned>>
evalVars == <<trial, single, sweep>>
prepVars == <<gen, blend>>
vars == <<normVars, onehotVars, runs, evalVars, prepVars>>

FileRecords ==
    {[name |-> n, image |-> img] :
        n \in {m \in FileNames : EndsWith(m, Ext_fits)}, img \in Images}
    \cup {[name |-> n, image |-> <<>>] : n \in {m \in FileNames : ~EndsWith(m, Ext_fits)}}

\* the directories of at most MaxFiles files, in every listing order
Directories ==
    UNION {{d \in [1..k -> FileRecords] :
                \A i, j \in 1..k : d[i].name = d[j].name => i = j} : k \in 0..MaxFiles}

\* fits.getdata(cutout_path + file)
ImageOf(d, file) == (CHOOSE f \in Range(d) : f.name = file).image

\* the normalisation notebook not run
NormUnrun ==
    /\ dir = <<>> /\ pc = "idle" /\ error = ""
    /\ cutout_files = <<>> /\ gals = 0 /\ stars = 0
    /\ gal_star = <<>> /\ min_pixel = <<>> /\ max_pixel = <<>> /\ plot_data = <<>>
    /\ obj_id = <<>> /\ idx = 0
    /\ min_pixel_all = <<>> /\ max_pixel_all = <<>>
    /\ num = 0 /\ csv = [t \in 0..5 |-> <<>>] /\ written = {}

NormIdle == NormUnrun /\ data_files = <<>>

OnehotIdle == values = <<>> /\ onehot = <<>> /\ val_pos = 0 /\ returned = FALSE

EvalIdle == trial = <<>> /\ single = <<>> /\ sweep = <<>>

PrepIdle == gen = <<>> /\ blend = <<>>

Init ==
    /\ dir \in Directories
    /\ pc = "list" /\ error = ""
    /\ cutout_files = <<>> /\ gals = 0 /\ stars = 0
    /\ gal_star = <<>> /\ min_pixel = <<>> /\ max_pixel = <<>> /\ plot_data = <<>>
    /\ obj_id = <<>> /\ idx = 0
    /\ min_pixel_all = <<>> /\ max_pixel_all = <<>>
    /\ num = 0 /\ csv = [t \in 0..5 |-> <<>>] /\ written = {}
    /\ data_files = <<>>
    /\ OnehotIdle
    /\ runs = <<>>
    /\ EvalIdle /\ PrepIdle

\* cell 2: list the cutouts and count them by prefix
ListCell ==
    /\ pc = "list"
    /\ LET r == ListCutouts([i \in 1..Len(dir) |-> dir[i].name], 1,
                            [cutout_files |-> <<>>, gals |-> 0, stars |-> 0])
       IN  /\ cutout_files' = r.cutout_files
           /\ gals' = r.gals
           /\ stars' = r.stars
    /\ pc' = "shuffle"
    /\ UNCHANGED <<dir, error, gal_star, min_pixel, max_pixel, plot_data, obj_id, idx,
                   min_pixel_all, max_pixel_all, num, csv, written, data_files,
                   onehotVars, runs, evalVars, prepVars>>

\* cell 3: random.Random(128).shuffle(cutout_files)
ShuffleCell ==
    /\ pc = "shuffle"
    /\ cutout_files' = Shuffle128(cutout_files)
    /\ pc' = "init"
    /\ UNCHANGED <<dir, error, gals, stars, gal_star, min_pixel, max_pixel, plot_data,
                   obj_id, idx, min_pixel_all, max_pixel_all, num, csv, written,
                   data_files, onehotVars, runs, evalVars, prepVars>>

\* cell 4: the empty accumulators
InitCell ==
    /\ pc = "init"
    /\ gal_star' = <<>> /\ min_pixel' = <<>> /\ max_pixel' = <<>> /\ plot_data' = <<>>
    /\ pc' = "flatten"
    /\ UNCHANGED <<dir, error, cutout_files, gals, stars, obj_id, idx, min_pixel_all,
                   max_pixel_all, num, csv, written, data_files, onehotVars, runs, evalVars, prepVars>>

\* cell 5, one iteration of the loop over cutout_files: the label from the
\* prefix, the extrema of the sample, the row [label, pixels].  np.append
\* raises NameError when obj_id was never bound
FlattenStep ==
    /\ pc = "flatten"
    /\ idx < Len(cutout_files)
    /\ LET file == cutout_files[idx + 1]
           data_flattened == flatten(ImageOf(dir, file))
           id == LabelAfter(file, obj_id)
       IN  /\ obj_id' = id
           /\ min_pixel' = Append(min_pixel, Min(data_flattened))
           /\ max_pixel' = Append(max_pixel, Max(data_flattened))
           /\ IF id = <<>>
              THEN /\ pc' = "failed" /\ error' = "NameError"
                   /\ UNCHANGED <<gal_star, idx>>
              ELSE /\ gal_star' = Append(gal_star, id \o data_flattened)
                   /\ idx' = idx + 1
                   /\ UNCHANGED <<pc, error>>
    /\ UNCHANGED <<dir, cutout_files, gals, stars, plot_data, min_pixel_all,
                   max_pixel_all, num, csv, written, data_files, onehotVars, runs, evalVars, prepVars>>

\* cell 5 after the loop: the plot column and raw_image_data.csv
FlattenSave ==
    /\ pc = "flatten"
    /\ idx = Len(cutout_files)
    /\ plot_data' = Append(plot_data, PlotColumn("raw", gal_star))
    /\ csv' = [csv EXCEPT ![0] = to_csv(gal_star)]
    /\ written' = written \cup {0}
    /\ pc' = "stats"
    /\ UNCHANGED <<dir, error, cutout_files, gals, stars, gal_star, min_pixel, max_pixel,
                   obj_id, idx, min_pixel_all, max_pixel_all, num, data_files,
                   onehotVars, runs, evalVars, prepVars>>

\* cell 6: the extrema over all samples; np.min of an empty list raises
\* ValueError
StatsCell ==
    /\ pc = "stats"
    /\ IF min_pixel = <<>>
       THEN /\ pc' = "failed" /\ error' = "ValueError"
            /\ UNCHANGED <<min_pixel_all, max_pixel_all>>
       ELSE /\ min_pixel_all' = <<Min(min_pixel)>>
            /\ max_pixel_all' = <<Max(max_pixel)>>
            /\ pc' = "normalize"
            /\ UNCHANGED error
    /\ UNCHANGED <<dir, cutout_files, gals, stars, gal_star, min_pixel, max_pixel,
                   plot_data, obj_id, idx, num, csv, written, data_files, onehotVars, runs, evalVars, prepVars>>

\* NormalizeStep with max_pixel_all rebound to the last sample's maximum
NormalizeStep_Rebind ==
    /\ pc = "normalize"
    /\ num < 5
    /\ LET gal_star_norm == NormalizeTable(num + 1, gal_star, min_pixel_all[1],
                                          max_pixel_all[1])
       IN  /\ plot_data' = Append(plot_data, PlotColumn("norm", gal_star_norm))
           /\ csv' = [csv EXCEPT ![num + 1] = to_csv(gal_star_norm)]
    /\ written' = written \cup {num + 1}
    /\ obj_id' = SubSeq(gal_star[Len(gal_star)], 1, 1)
    /\ max_pixel_all' = <<max_pixel[Len(max_pixel)]>>
    /\ num' = num + 1
    /\ pc' = IF num + 1 = 5 THEN "read" ELSE "normalize"
    /\ UNCHANGED <<dir, error, cutout_files, gals, stars, gal_star, min_pixel, max_pixel,
                   idx, min_pixel_all, data_files, onehotVars, runs, evalVars, prepVars>>

\* last cell of the loop over techniques, one technique: normalise every
\* row, add the plot column, write norm_<num+1>_image_data.csv
NormalizeStep ==
    /\ pc = "normalize"
    /\ num < 5
    /\ LET gal_star_norm == NormalizeTable(num + 1, gal_star, min_pixel_all[1],
                                          max_pixel_all[1])
       IN  /\ plot_data' = Append(plot_data, PlotColumn("norm", gal_star_norm))
           /\ csv' = [csv EXCEPT ![num + 1] = to_csv(gal_star_norm)]
    /\ written' = written \cup {num + 1}
    /\ obj_id' = SubSeq(gal_star[Len(gal_star)], 1, 1)
    /\ num' = num + 1
    /\ pc' = IF num + 1 = 5 THEN "read" ELSE "normalize"
    /\ UNCHANGED <<dir, error, cutout_files, gals, stars, gal_star, min_pixel, max_pixel,
                   idx, min_pixel_all, max_pixel_all, data_files, onehotVars, runs, evalVars, prepVars>>

\* star_gal_MuyGPs_classification.ipynb, cell 2: read the six tables
ReadTables ==
    /\ pc = "read"
    /\ IF \E t \in 0..5 : csv[t] = <<>>
       THEN /\ pc' = "failed" /\ error' = "EmptyDataError"
            /\ UNCHANGED data_files
       ELSE /\ data_files' = [t \in 0..5 |-> read_csv(csv[t])]
            /\ pc' = "loaded"
            /\ UNCHANGED error
    /\ UNCHANGED <<dir, cutout_files, gals, stars, gal_star, min_pixel, max_pixel,
                   plot_data, obj_id, idx, min_pixel_all, max_pixel_all, num, csv,
                   written, onehotVars, runs, evalVars, prepVars>>

(***************************************************************************)
(* generate_onehot_value, one loop iteration at a time.                    *)
(***************************************************************************)
\* OnehotOf with the two rows exchanged
OnehotOf_Exchanged(val) ==
    IF val = Zero THEN <<(<<0 - 1, 1>>)>>
    ELSE IF val = One THEN <<(<<1, 0 - 1>>)>>
    ELSE <<>>

\* what one iteration appends for val: a row for 0, a row for 1, nothing
\* for anything else
OnehotOf(val) ==
    IF val = Zero THEN <<(<<1, 0 - 1>>)>>
    ELSE IF val = One THEN <<(<<0 - 1, 1>>)>>
    ELSE <<>>

RECURSIVE generate_onehot_value(_)
generate_onehot_value(vals) ==
    IF vals = <<>> THEN <<>>
    ELSE OnehotOf(Head(vals)) \o generate_onehot_value(Tail(vals))

LabelSeqs == UNION {[1..k -> {Num(l) : l \in 0..MaxLabel}] : k \in 0..MaxLabels}

InitOnehot ==
    /\ NormIdle
    /\ values \in LabelSeqs
    /\ onehot = <<>> /\ val_pos = 0 /\ returned = FALSE
    /\ runs = <<>>
    /\ EvalIdle /\ PrepIdle

OnehotStep ==
    /\ ~returned
    /\ val_pos < Len(values)
    /\ onehot' = onehot \o OnehotOf(values[val_pos + 1])
    /\ val_pos' = val_pos + 1
    /\ UNCHANGED <<values, returned, normVars, runs, evalVars, prepVars>>

OnehotReturn ==
    /\ ~returned
    /\ val_pos = Len(values)
    /\ returned' = TRUE
    /\ UNCHANGED <<values, onehot, val_pos, normVars, runs, evalVars, prepVars>>

NextOnehot == OnehotStep \/ OnehotReturn

SpecOnehot == InitOnehot /\ [][NextOnehot]_vars

(***************************************************************************)
(* Two executions of the listing and shuffle cells over the same set of    *)
(* cutout files, os.listdir returning them in an order of its own each     *)
(* time.                                                                   *)
(***************************************************************************)
Perms(S) == {f \in [1..Cardinality(S) -> S] : \A i, j \in DOMAIN f : f[i] = f[j] => i = j}

Corpora == {S \in SUBSET FileNames : Cardinality(S) <= MaxFiles}

InitListing ==
    /\ NormIdle /\ OnehotIdle /\ EvalIdle /\ PrepIdle
    /\ \E S \in Corpora :
          runs \in [1..2 -> {[pc |-> "list", listing |-> l, cutout_files |-> <<>>] :
                                l \in Perms(S)}]

RunList(r) ==
    /\ runs[r].pc = "list"
    /\ runs' = [runs EXCEPT ![r].pc = "shuffle",
                            ![r].cutout_files =
                                ListCutouts(runs[r].listing, 1,
                                    [cutout_files |-> <<>>, gals |-> 0,
                                     stars |-> 0]).cutout_files]
    /\ UNCHANGED <<normVars, onehotVars, evalVars, prepVars>>

RunShuffle(r) ==
    /\ runs[r].pc = "shuffle"
    /\ runs' = [runs EXCEPT ![r].pc = "done",
                            ![r].cutout_files = Shuffle128(runs[r].cutout_files)]
    /\ UNCHANGED <<normVars, onehotVars, evalVars, prepVars>>

NextListing == \E r \in 1..2 : RunList(r) \/ RunShuffle(r)

SpecListing == InitListing /\ [][NextListing]_vars

(***************************************************************************)
(* Two corpora that hold the same sample, normalised one after the other.  *)
(* The shared sample is row 1 of both raw tables; the rest of a corpus is  *)
(* at most one further sample (a technique sees the rest of the corpus     *)
(* only through the two global extrema, and one sample can hold both).     *)
(***************************************************************************)
\* lines 124-125 and 146-147 over a whole raw table
CorpusExtrema(table) ==
    [min |-> Min([i \in 1..Len(table) |-> Min(Tail(table[i]))]),
     max |-> Max([i \in 1..Len(table) |-> Max(Tail(table[i]))])]

StarRows == {<<Zero>> \o flatten(img) : img \in Images}
GalaxyRows == {<<One>> \o flatten(img) : img \in Images}
RestOfCorpus == {<<>>} \cup {<<row>> : row \in GalaxyRows}

InitCorpora ==
    /\ NormIdle /\ OnehotIdle /\ EvalIdle /\ PrepIdle
    /\ \E x \in StarRows :
          runs \in [1..2 -> {[pc |-> "stats", gal_star |-> <<x>> \o rest,
                              min_pixel_all |-> <<>>, max_pixel_all |-> <<>>,
                              num |-> 0, tables |-> <<>>] : rest \in RestOfCorpus}]

\* the second corpus is processed once the first is done
Turn(r) == r = 1 \/ runs[1].pc = "done"

RunStats(r) ==
    /\ Turn(r)
    /\ runs[r].pc = "stats"
    /\ runs' = [runs EXCEPT ![r].pc = "normalize",
                            ![r].min_pixel_all = <<CorpusExtrema(runs[r].gal_star).min>>,
                            ![r].max_pixel_all = <<CorpusExtrema(runs[r].gal_star).max>>]
    /\ UNCHANGED <<normVars, onehotVars, evalVars, prepVars>>

RunNormalize(r) ==
    /\ Turn(r)
    /\ runs[r].pc = "normalize"
    /\ runs' = [runs EXCEPT ![r].num = @ + 1,
                            ![r].pc = IF runs[r].num + 1 = 5 THEN "done" ELSE "normalize",
                            ![r].tables =
                                Append(@, NormalizeTable(runs[r].num + 1, runs[r].gal_star,
                                                         runs[r].min_pixel_all[1],
                                                         runs[r].max_pixel_all[1]))]
    /\ UNCHANGED <<normVars, onehotVars, evalVars, prepVars>>

NextCorpora == \E r \in 1..2 : RunStats(r) \/ RunNormalize(r)

SpecCorpora == InitCorpora /\ [][NextCorpora]_vars

(***************************************************************************)
(* star_gal_MuyGPs_classification.ipynb: the split, one classifier run,    *)
(* the single-run loop and the accuracy sweep.                             *)
(***************************************************************************)
\* the values RandomState(seed)'s random_interval(i) returns for i = n-1 down
\* to 1 when permutation(n) shuffles arange(n) (Mersenne Twister, numpy's
\* integer seeding)
RandomIntervals(seed, n) ==
    CASE n <= 1 -> <<>>
      [] seed = 0 /\ n = 2 -> <<0>>
      [] seed = 0 /\ n = 3 -> <<0, 1>>
      [] seed = 0 /\ n = 4 -> <<0, 1, 0>>
      [] seed = 0 /\ n = 5 -> <<4, 3, 1, 0>>
      [] seed = 0 /\ n = 6 -> <<4, 0, 3, 1, 1>>
      [] seed = 1 /\ n = 2 -> <<1>>
      [] seed = 1 /\ n = 3 -> <<1, 1>>
      [] seed = 1 /\ n = 4 -> <<1, 0, 0>>
      [] seed = 1 /\ n = 5 -> <<3, 0, 0, 1>>
      [] seed = 1 /\ n = 6 -> <<5, 3, 0, 0, 1>>
      [] seed = 2 /\ n = 2 -> <<0>>
      [] seed = 2 /\ n = 3 -> <<0, 1>>
      [] seed = 2 /\ n = 4 -> <<0, 1, 0>>
      [] seed = 2 /\ n = 5 -> <<0, 3, 1, 0>>
      [] seed = 2 /\ n = 6 -> <<0, 0, 2, 2, 1>>
      [] seed = 3 /\ n = 2 -> <<0>>
      [] seed = 3 /\ n = 3 -> <<2, 0>>
      [] seed = 3 /\ n = 4 -> <<2, 0, 1>>
      [] seed = 3 /\ n = 5 -> <<2, 0, 1, 1>>
      [] seed = 3 /\ n = 6 -> <<2, 0, 1, 0, 0>>
      [] seed = 42 /\ n = 2 -> <<0>>
      [] seed = 42 /\ n = 3 -> <<2, 1>>
      [] seed = 42 /\ n = 4 -> <<2, 0, 0>>
      [] seed = 42 /\ n = 5 -> <<3, 0, 2, 0>>
      [] seed = 42 /\ n = 6 -> <<3, 4, 2, 2, 1>>

\* RandomState(seed).permutation(n): arange(n) shuffled, the row positions
\* counted from 0
permutation(seed, n) == ShuffleFrom([i \in 1..n |-> i - 1], 1, RandomIntervals(seed, n))

\* math.ceil(n / d) for n >= 0 and d > 0
Ceil(n, d) == (n + d - 1) \div d

\* train_test_split with the train rows beginning one position early
train_test_split_Overlap(n_samples, test_size, random_state) ==
    LET n_test == IF Len(test_size) = 1 THEN test_size[1]
                  ELSE Ceil(test_size[1] * n_samples, test_size[2])
        perm == permutation(random_state, n_samples)
    IN  IF \/ Len(test_size) = 1 /\ (test_size[1] >= n_samples \/ test_size[1] <= 0)
           \/ Len(test_size) = 2 /\ (test_size[1] <= 0 \/ test_size[1] >= test_size[2])
           \/ n_samples - n_test = 0
        THEN [error |-> "ValueError", train |-> <<>>, test |-> <<>>]
        ELSE [error |-> "",
              train |-> SubSeq(perm, n_test, n_samples),
              test |-> SubSeq(perm, 1, n_test)]

\* sklearn's train_test_split with test_size and random_state given, on row
\* positions.  A float test_size is the fraction <<numerator, denominator>>
\* and n_test = ceil(test_size * n_samples); an int test_size is <<count>>
\* and n_test is that count.  The first n_test positions of the permutation
\* are the test rows and the rest the train rows.  A float outside (0, 1),
\* an int outside 1..n_samples-1 and an empty train set raise ValueError
train_test_split(n_samples, test_size, random_state) ==
    LET n_test == IF Len(test_size) = 1 THEN test_size[1]
                  ELSE Ceil(test_size[1] * n_samples, test_size[2])
        n_train == n_samples - n_test
        perm == permutation(random_state, n_samples)
    IN  IF \/ Len(test_size) = 1 /\ (test_size[1] >= n_samples \/ test_size[1] <= 0)
           \/ Len(test_size) = 2 /\ (test_size[1] <= 0 \/ test_size[1] >= test_size[2])
           \/ n_train = 0
        THEN [error |-> "ValueError", train |-> <<>>, test |-> <<>>]
        ELSE [error |-> "",
              train |-> SubSeq(perm, n_test + 1, n_test + n_train),
              test |-> SubSeq(perm, 1, n_test)]

\* array[positions], the positions counted from 0
Take(array, positions) == [k \in 1..Len(positions) |-> array[positions[k] + 1]]

\* a row of surrogate_predictions: the response for the star and for the
\* galaxy class
PredictionRows == {<<1, 0 - 1>>, <<0 - 1, 1>>, <<0, 0>>}

\* what a call of do_classify for n test rows can do: raise, or return one
\* row of predictions per test row
do_classify(n) ==
    {[raised |-> TRUE, surrogate_predictions |-> <<>>]}
    \cup {[raised |-> FALSE, surrogate_predictions |-> p] : p \in [1..n -> PredictionRows]}

\* np.argmax over a row of two: the first position (0) on a tie
argmax(row) == IF row[2] > row[1] THEN 1 ELSE 0

\* lines 203-204 with the hits counted as misses
accuracy_of_Misses(surrogate_predictions, test_output) ==
    LET predicted_labels == [k \in 1..Len(surrogate_predictions) |->
                                argmax(surrogate_predictions[k])]
        hits == {k \in 1..Len(predicted_labels) :
                    predicted_labels[k] # argmax(test_output[k])}
    IN  Rat(Cardinality(hits) * 100, Len(predicted_labels))

\* lines 203-204: (np.sum(predicted_labels == np.argmax(test["output"],
\* axis=1)) / len(predicted_labels)) * 100
accuracy_of(surrogate_predictions, test_output) ==
    LET predicted_labels == [k \in 1..Len(surrogate_predictions) |->
                                argmax(surrogate_predictions[k])]
        hits == {k \in 1..Len(predicted_labels) :
                    predicted_labels[k] = argmax(test_output[k])}
    IN  Rat(Cardinality(hits) * 100, Len(predicted_labels))

NoResult ==
    [error |-> "", accuracy |-> <<>>, train |-> <<>>, test |-> <<>>,
     test_output |-> <<>>, surrogate_predictions |-> <<>>]

\* run_classifier(image_data, truth_labels, test_size, state) when do_classify
\* behaves as `outcome`.  image_data reaches do_classify only, so the rows
\* are kept as their positions: X_train and X_test are image_data at the
\* train and test positions
run_classifier(truth_labels, test_size, state, outcome) ==
    LET split == train_test_split(Len(truth_labels), test_size, state)
        y_test == Take(truth_labels, split.test)
        onehot_test == generate_onehot_value(y_test)
    IN  IF split.error # "" THEN [NoResult EXCEPT !.error = split.error]
        ELSE IF outcome.raised
        THEN [NoResult EXCEPT !.error = "ClassifierError",
                              !.train = split.train, !.test = split.test,
                              !.test_output = onehot_test]
        ELSE [error |-> "",
              accuracy |-> <<accuracy_of(outcome.surrogate_predictions, onehot_test)>>,
              train |-> split.train, test |-> split.test,
              test_output |-> onehot_test,
              surrogate_predictions |-> outcome.surrogate_predictions]

\* the number of test rows run_classifier hands to do_classify
TestRows(truth_labels, test_size, state) ==
    Len(train_test_split(Len(truth_labels), test_size, state).test)

\* test_size_values, each ratio as the fraction <<numerator, denominator>>
test_size_values == << <<1, 5>>, <<1, 4>>, <<33, 100>>, <<2, 5>>, <<1, 2>>, <<3, 4>> >>

num_runs == 3

\* values outside (0, 1) as they may be typed into test_size_values: the
\* ints 0 and 1 and the floats 0.0, 1.0, 1.5 and -0.5
OutsideSizes == {<<0>>, <<1>>, <<0, 1>>, <<1, 1>>, <<3, 2>>, <<0 - 1, 2>>}

\* randint with b + 1 among the results
randint_Beyond(a, b) == a..(b + 1)

\* random.randint(a, b): any integer from a to b
randint(a, b) == a..b

\* a + b for rationals
Add(a, b) == Rat(a.n * b.d + b.n * a.d, a.d * b.d)

RECURSIVE SumOf(_)
SumOf(s) == IF s = <<>> THEN Zero ELSE Add(Head(s), SumOf(Tail(s)))

\* np.average with the last element returned
np_average_Last(a) == a[Len(a)]

\* np.average of a non-empty list
np_average(a) == Div(SumOf(a), Num(Len(a)))

\* data.iloc[:, 0].values
LabelColumn(data) == [i \in 1..Len(data) |-> data[i][1]]

\* len(y[y == label])
CountOf(y, label) == Cardinality({i \in 1..Len(y) : y[i] = label})

\* the name data_files pairs with table t
data_label(t) ==
    CASE t = 0 -> "Raw data"
      [] t = 1 -> "Normalized data 1"
      [] t = 2 -> "Normalized data 2"
      [] t = 3 -> "Normalized data 3"
      [] t = 4 -> "Normalized data 4"
      [] t = 5 -> "Normalized data 5"

\* the six tables the classification notebook holds after its reading cell
\* when the normalisation notebook ran on the raw table g
LoadedFrom(g) ==
    LET ext == CorpusExtrema(g)
    IN  [t \in 0..5 |->
            read_csv(to_csv(IF t = 0 THEN g
                            ELSE NormalizeTable(t, g, ext.min, ext.max)))]

\* two cutouts: one of a single pixel value, one with a zero pixel
EvalImages ==
    {[r \in 1..ImageShape[1] |-> [c \in 1..ImageShape[2] |-> 1]],
     [r \in 1..ImageShape[1] |-> [c \in 1..ImageShape[2] |-> IF c = 1 THEN 0 ELSE MaxPixel]]}

EvalRows == {<<l>> \o flatten(img) : l \in {Zero, One}, img \in EvalImages}

\* the raw tables of 1 to MaxRows samples
EvalCorpora == UNION {[1..k -> EvalRows] : k \in 1..MaxRows}

(***************************************************************************)
(* One call of run_classifier.                                             *)
(***************************************************************************)
InitTrial ==
    /\ NormIdle /\ OnehotIdle /\ runs = <<>> /\ PrepIdle
    /\ single = <<>> /\ sweep = <<>>
    /\ trial \in {[pc |-> "call", truth_labels |-> y, test_size |-> r, state |-> s,
                   result |-> NoResult] :
                     y \in UNION {[1..k -> {Zero, One}] : k \in 0..MaxRows},
                     r \in Range(test_size_values) \cup OutsideSizes,
                     s \in randint(0, MaxSeed) \cup {42}}

RunClassifier ==
    /\ trial.pc = "call"
    /\ \E outcome \in do_classify(TestRows(trial.truth_labels, trial.test_size, trial.state)) :
          LET result == run_classifier(trial.truth_labels, trial.test_size, trial.state,
                                       outcome)
          IN  trial' = [trial EXCEPT !.pc = IF result.error = "" THEN "returned" ELSE "raised",
                                     !.result = result]
    /\ UNCHANGED <<normVars, onehotVars, runs, single, sweep, prepVars>>

NextTrial == RunClassifier

SpecTrial == InitTrial /\ [][NextTrial]_vars

(***************************************************************************)
(* The single-run loop over data_files: test_size=0.5, random_state=42.    *)
(***************************************************************************)
InitEval ==
    /\ NormUnrun /\ OnehotIdle /\ runs = <<>> /\ PrepIdle
    /\ trial = <<>> /\ sweep = <<>>
    /\ \E g \in EvalCorpora : data_files = LoadedFrom(g)
    /\ single = [pc |-> "run", k |-> 0, printed |-> <<>>, accuracy |-> <<>>, error |-> ""]

\* one iteration of the loop: split, print the counts, classify, print the
\* accuracy
SingleRunStep ==
    /\ single.pc = "run"
    /\ single.k < 6
    /\ LET truth_labels == LabelColumn(data_files[single.k])
           split == train_test_split(Len(truth_labels), <<1, 2>>, 42)
           y_train == Take(truth_labels, split.train)
           y_test == Take(truth_labels, split.test)
           counts == [data_label |-> data_label(single.k),
                      train_rows |-> split.train, test_rows |-> split.test,
                      train |-> <<CountOf(y_train, Zero), CountOf(y_train, One)>>,
                      test |-> <<CountOf(y_test, Zero), CountOf(y_test, One)>>]
       IN  IF split.error # ""
           THEN single' = [single EXCEPT !.pc = "failed", !.error = split.error]
           ELSE \E outcome \in do_classify(Len(split.test)) :
                   IF outcome.raised
                   THEN single' = [single EXCEPT !.pc = "failed",
                                                 !.error = "ClassifierError",
                                                 !.printed = Append(@, counts)]
                   ELSE single' = [single EXCEPT
                                     !.k = @ + 1,
                                     !.printed = Append(@, counts),
                                     !.accuracy =
                                        <<accuracy_of(outcome.surrogate_predictions,
                                                      generate_onehot_value(y_test))>>]
    /\ UNCHANGED <<normVars, onehotVars, runs, trial, sweep, prepVars>>

SingleRunEnd ==
    /\ single.pc = "run"
    /\ single.k = 6
    /\ single' = [single EXCEPT !.pc = "done"]
    /\ UNCHANGED <<normVars, onehotVars, runs, trial, sweep, prepVars>>

NextEval == SingleRunStep \/ SingleRunEnd

SpecEval == InitEval /\ [][NextEval]_vars

(***************************************************************************)
(* The accuracy sweep.  It is run over the first tables of data_files and  *)
(* the first ratios of test_size_values; the loop body is the same for     *)
(* every table and ratio.                                                  *)
(***************************************************************************)
\* the tables swept, as their positions in data_files
SweepTables == <<0, 1>>
\* the ratios swept
SweepSizes == SubSeq(test_size_values, 1, 2)

\* a raw table of k samples, a star and a galaxy in turn
SweepCorpus(k) ==
    [i \in 1..k |->
        IF i % 2 = 1
        THEN <<Zero>> \o flatten([r \in 1..ImageShape[1] |-> [c \in 1..ImageShape[2] |-> 1]])
        ELSE <<One>> \o flatten([r \in 1..ImageShape[1] |->
                                    [c \in 1..ImageShape[2] |-> IF c = 1 THEN 0 ELSE MaxPixel]])]

\* sweep: the loop position (d, s, idx), the notebook's acc, all_acc_dataset,
\* accuracies and pbar; cell logs the trials of the current (table, ratio),
\* states the seeds drawn, ntrials the calls of run_classifier and calls
\* the calls of do_classify
InitSweep ==
    /\ NormUnrun /\ OnehotIdle /\ runs = <<>> /\ PrepIdle
    /\ trial = <<>> /\ single = <<>>
    /\ \E k \in 1..MaxRows : data_files = LoadedFrom(SweepCorpus(k))
    /\ sweep = [pc |-> "trial", d |-> 1, s |-> 1, idx |-> 1,
                acc |-> <<>>, all_acc_dataset |-> <<>>,
                accuracies |-> <<[name |-> "test_size",
                                  values |-> [i \in 1..Len(SweepSizes) |->
                                                 Rat(SweepSizes[i][1], SweepSizes[i][2])]]>>,
                pbar |-> 0, error |-> "",
                cell |-> <<>>, states |-> {}, ntrials |-> 0, calls |-> 0]

\* the body of `while idx <= num_runs`: one call of run_classifier with a
\* seed drawn for it; an exception leaves the loops
SweepTrial ==
    /\ sweep.pc = "trial"
    /\ sweep.idx <= num_runs
    /\ \E state \in randint(0, MaxSeed) :
          LET t == SweepTables[sweep.d]
              test_size == SweepSizes[sweep.s]
              truth_labels == LabelColumn(data_files[t])
          IN  \E outcome \in do_classify(TestRows(truth_labels, test_size, state)) :
                 LET result == run_classifier(truth_labels, test_size, state, outcome)
                     seen == [sweep EXCEPT
                                !.states = @ \cup {state},
                                !.ntrials = @ + 1,
                                !.calls = IF result.error = "ValueError" THEN @ ELSE @ + 1]
                 IN  IF result.error # ""
                     THEN sweep' = [seen EXCEPT !.pc = "failed", !.error = result.error]
                     ELSE sweep' = [seen EXCEPT
                                      !.acc = Append(@, result.accuracy[1]),
                                      !.pbar = @ + 1,
                                      !.idx = @ + 1,
                                      !.cell = Append(@, [table |-> t,
                                                          test_size |-> test_size,
                                                          accuracy |-> result.accuracy[1]])]
    /\ UNCHANGED <<normVars, onehotVars, runs, trial, single, prepVars>>

\* after the while loop: the mean of acc joins all_acc_dataset; the next
\* ratio starts with an empty acc
SweepAverage ==
    /\ sweep.pc = "trial"
    /\ sweep.idx > num_runs
    /\ LET avg_acc == np_average(sweep.acc)
       IN  sweep' = IF sweep.s < Len(SweepSizes)
                    THEN [sweep EXCEPT !.all_acc_dataset = Append(@, avg_acc),
                                       !.s = @ + 1, !.acc = <<>>, !.idx = 1,
                                       !.cell = <<>>]
                    ELSE [sweep EXCEPT !.all_acc_dataset = Append(@, avg_acc),
                                       !.pc = "concat"]
    /\ UNCHANGED <<normVars, onehotVars, runs, trial, single, prepVars>>

\* after the loop over test_size_values: the table's column joins accuracies;
\* the next table starts with an empty all_acc_dataset
SweepConcat ==
    /\ sweep.pc = "concat"
    /\ LET temp_df == [name |-> data_label(SweepTables[sweep.d]),
                       values |-> sweep.all_acc_dataset]
       IN  sweep' = IF sweep.d < Len(SweepTables)
                    THEN [sweep EXCEPT !.accuracies = Append(@, temp_df),
                                       !.d = @ + 1, !.s = 1, !.all_acc_dataset = <<>>,
                                       !.acc = <<>>, !.idx = 1, !.cell = <<>>,
                                       !.pc = "trial"]
                    ELSE [sweep EXCEPT !.accuracies = Append(@, temp_df),
                                       !.pc = "display"]
    /\ UNCHANGED <<normVars, onehotVars, runs, trial, single, prepVars>>

\* display(accuracies)
SweepDisplay ==
    /\ sweep.pc = "display"
    /\ sweep' = [sweep EXCEPT !.pc = "done"]
    /\ UNCHANGED <<normVars, onehotVars, runs, trial, single, prepVars>>

NextSweep == SweepTrial \/ SweepAverage \/ SweepConcat \/ SweepDisplay

SpecSweep == InitSweep /\ [][NextSweep]_vars

Next ==
    \/ ListCell
    \/ ShuffleCell
    \/ InitCell
    \/ FlattenStep
    \/ FlattenSave
    \/ StatsCell
    \/ NormalizeStep
    \/ ReadTables

Spec == Init /\ [][Next]_vars

(***************************************************************************)
(* The normalisation notebook with the kernel interrupted while to_csv is  *)
(* writing: to_csv opens the artifact's own path for writing and writes    *)
(* the lines to it, so the path holds the lines written so far.            *)
(***************************************************************************)
\* the raw table's to_csv interrupted after k of its lines
InterruptRawSave ==
    /\ pc = "flatten"
    /\ idx = Len(cutout_files)
    /\ \E k \in 0..(Len(gal_star) - 1) :
          csv' = [csv EXCEPT ![0] = SubSeq(to_csv(gal_star), 1, k)]
    /\ plot_data' = Append(plot_data, PlotColumn("raw", gal_star))
    /\ written' = written \cup {0}
    /\ pc' = "failed" /\ error' = "KeyboardInterrupt"
    /\ UNCHANGED <<dir, cutout_files, gals, stars, gal_star, min_pixel, max_pixel,
                   obj_id, idx, min_pixel_all, max_pixel_all, num, data_files,
                   onehotVars, runs, evalVars, prepVars>>

\* a normalised table's to_csv interrupted after k of its lines
InterruptNormSave ==
    /\ pc = "normalize"
    /\ num < 5
    /\ LET gal_star_norm == NormalizeTable(num + 1, gal_star, min_pixel_all[1],
                                          max_pixel_all[1])
       IN  /\ plot_data' = Append(plot_data, PlotColumn("norm", gal_star_norm))
           /\ \E k \in 0..(Len(gal_star_norm) - 1) :
                 csv' = [csv EXCEPT ![num + 1] = SubSeq(to_csv(gal_star_norm), 1, k)]
    /\ written' = written \cup {num + 1}
    /\ obj_id' = SubSeq(gal_star[Len(gal_star)], 1, 1)
    /\ pc' = "failed" /\ error' = "KeyboardInterrupt"
    /\ UNCHANGED <<dir, cutout_files, gals, stars, gal_star, min_pixel, max_pixel,
                   idx, min_pixel_all, max_pixel_all, num, data_files, onehotVars,
                   runs, evalVars, prepVars>>

NextInterrupt == Next \/ InterruptRawSave \/ InterruptNormSave

SpecInterrupt == Init /\ [][NextInterrupt]_vars

(***************************************************************************)
(* The flatten cell executed by hand a second time, the cell that          *)
(* initialises gal_star, min_pixel and max_pixel not executed again: the   *)
(* for loop starts over at the first file and the accumulators keep what   *)
(* the first execution appended.  The cell has been executed once when     *)
(* plot_data holds one 'raw' column.                                       *)
(***************************************************************************)
RerunFlattenCell ==
    /\ pc \in {"stats", "normalize"}
    /\ Cardinality({c \in 1..Len(plot_data) : plot_data[c].name = "raw"}) = 1
    /\ idx' = 0
    /\ pc' = "flatten"
    /\ UNCHANGED <<dir, error, cutout_files, gals, stars, gal_star, min_pixel, max_pixel,
                   plot_data, obj_id, min_pixel_all, max_pixel_all, num, csv, written,
                   data_files, onehotVars, runs, evalVars, prepVars>>

NextRerun == Next \/ RerunFlattenCell

SpecRerun == Init /\ [][NextRerun]_vars

(***************************************************************************)
(* Cutout generation (the notebook that fills cutouts/).  An image is the  *)
(* rows and the columns of the fetched cutout that it holds, by their      *)
(* position in the fetched cutout: shape = <<Len(rows), Len(cols)>>.       *)
(***************************************************************************)
Sides == {19, 20, 21, 22}

Positions(n) == [i \in 1..n |-> i]

\* what fits.getdata(url) can return: a cutout of any shape near 20x20
FetchedImages == {[rows |-> Positions(h), cols |-> Positions(w)] : h, w \in Sides}

shape(image) == <<Len(image.rows), Len(image.cols)>>

\* np.delete(image, 0, axis)
np_delete(image, axis) ==
    IF axis = 0 THEN [image EXCEPT !.rows = Tail(@)]
                ELSE [image EXCEPT !.cols = Tail(@)]

\* save_image accepting a side of up to 22 pixels
save_image_Wide(fetched, n, plots, obj_type) ==
    IF \/ shape(fetched)[1] < 20 \/ shape(fetched)[2] < 20
       \/ shape(fetched)[1] > 22 \/ shape(fetched)[2] > 22
    THEN [num |-> n, plot_data |-> plots, writes |-> <<>>, pbar |-> 0]
    ELSE LET image1 == IF shape(fetched)[1] = 21 THEN np_delete(fetched, 0) ELSE fetched
             image == IF shape(image1)[2] = 21 THEN np_delete(image1, 1) ELSE image1
         IN  [num |-> n + 1,
              plot_data |-> IF n < 3 THEN Append(plots, image) ELSE plots,
              writes |-> <<[obj_type |-> obj_type, num |-> n, image |-> image]>>,
              pbar |-> 1]

\* save_image returning the counter it was given after a file is written
save_image_Uncounted(fetched, n, plots, obj_type) ==
    IF \/ shape(fetched)[1] < 20 \/ shape(fetched)[2] < 20
       \/ shape(fetched)[1] > 21 \/ shape(fetched)[2] > 21
    THEN [num |-> n, plot_data |-> plots, writes |-> <<>>, pbar |-> 0]
    ELSE LET image1 == IF shape(fetched)[1] = 21 THEN np_delete(fetched, 0) ELSE fetched
             image == IF shape(image1)[2] = 21 THEN np_delete(image1, 1) ELSE image1
         IN  [num |-> n,
              plot_data |-> IF n < 3 THEN Append(plots, image) ELSE plots,
              writes |-> <<[obj_type |-> obj_type, num |-> n, image |-> image]>>,
              pbar |-> 1]

\* save_image(url, num, plot_data, pbar), the image behind url given: the
\* counter and the plot list it returns, the file it writes (none when the
\* cutout is skipped) and the progress it adds to pbar
save_image(fetched, n, plots, obj_type) ==
    IF \/ shape(fetched)[1] < 20 \/ shape(fetched)[2] < 20
       \/ shape(fetched)[1] > 21 \/ shape(fetched)[2] > 21
    THEN [num |-> n, plot_data |-> plots, writes |-> <<>>, pbar |-> 0]
    ELSE LET image1 == IF shape(fetched)[1] = 21 THEN np_delete(fetched, 0) ELSE fetched
             image == IF shape(image1)[2] = 21 THEN np_delete(image1, 1) ELSE image1
         IN  [num |-> n + 1,
              plot_data |-> IF n < 3 THEN Append(plots, image) ELSE plots,
              writes |-> <<[obj_type |-> obj_type, num |-> n, image |-> image]>>,
              pbar |-> 1]

\* the number of cutouts of each type to make (10 in the notebook)
num_cutouts == MaxCutouts

obj_types == <<"star", "galaxy">>

\* the state before the loop over obj_type: ra_dec holds `objects` rows,
\* plot_data is empty, nothing is written
InitCutouts ==
    /\ NormIdle /\ OnehotIdle /\ runs = <<>> /\ EvalIdle
    /\ blend = <<>>
    /\ \E n \in 0..MaxObjects :
          gen = [pc |-> "type", t |-> 0, objects |-> n, idx |-> 0, num |-> 0,
                 pbar |-> 0, plot_data |-> <<>>, writes |-> <<>>, queried |-> <<>>,
                 fetched |-> <<>>]

\* for obj_type in ['star', 'galaxy']: num = 0, a new progress bar
CutoutType ==
    /\ gen # <<>> /\ gen.pc = "type"
    /\ IF gen.t < Len(obj_types)
       THEN gen' = [gen EXCEPT !.pc = "object", !.t = @ + 1, !.idx = 0, !.num = 0,
                               !.pbar = 0, !.fetched = <<>>]
       ELSE gen' = [gen EXCEPT !.pc = "done", !.fetched = <<>>]
    /\ UNCHANGED <<normVars, onehotVars, runs, evalVars, blend>>

\* one object of the inner loop while num < num_cutouts: the query returns
\* no image, or an image whose cutout save_image fetches
CutoutObject ==
    /\ gen # <<>> /\ gen.pc = "object"
    /\ gen.idx < gen.objects
    /\ gen.num < num_cutouts
    /\ LET asked == Append(gen.queried, <<obj_types[gen.t], gen.idx>>)
       IN  \/ gen' = [gen EXCEPT !.idx = @ + 1, !.queried = asked, !.fetched = <<>>]
           \/ \E fetched \in FetchedImages :
                 LET r == save_image(fetched, gen.num, gen.plot_data, obj_types[gen.t])
                 IN  gen' = [gen EXCEPT !.idx = @ + 1, !.queried = asked,
                                        !.fetched = <<fetched>>,
                                        !.num = r.num, !.plot_data = r.plot_data,
                                        !.pbar = @ + r.pbar,
                                        !.writes = @ \o r.writes]
    /\ UNCHANGED <<normVars, onehotVars, runs, evalVars, blend>>

\* the inner loop left: by break at the first object met once num_cutouts is
\* satisfied, or by the end of ra_dec
CutoutBreak ==
    /\ gen # <<>> /\ gen.pc = "object"
    /\ gen.idx = gen.objects \/ gen.num >= num_cutouts
    /\ gen' = [gen EXCEPT !.pc = "type", !.fetched = <<>>]
    /\ UNCHANGED <<normVars, onehotVars, runs, evalVars, blend>>

NextCutouts == CutoutType \/ CutoutObject \/ CutoutBreak

SpecCutouts == InitCutouts /\ [][NextCutouts]_vars

(***************************************************************************)
(* The blend cut of the catalogue.  Positions are offsets in arcseconds    *)
(* on a patch of sky small enough to be flat, so that the separation of    *)
(* two objects is the Euclidean distance of their offsets; distances are   *)
(* compared by their squares.                                              *)
(***************************************************************************)
Offsets == {0, 20, 60}

SkyPositions == {[ra |-> a, dec |-> d] : a \in Offsets, d \in {0, 20}}

\* the catalogues `data` of at most MaxObjects objects
Catalogues == UNION {[1..n -> SkyPositions] : n \in 0..MaxObjects}

\* the square of the search radius (20 * np.sqrt(2)) arcsec
seplimit2 == 20 * 20 * 2

separation2(p, q) ==
    (p.ra - q.ra) * (p.ra - q.ra) + (p.dec - q.dec) * (p.dec - q.dec)

\* the pairs <<i, j>> of 1..n in row order
AllPairs(n) == [k \in 1..(n * n) |-> <<((k - 1) \div n) + 1, ((k - 1) % n) + 1>>]

\* search_around_sky(c, c, seplimit): every pair of positions of c, an
\* object paired with itself included, that lie within seplimit
search_around_sky(c, limit2) ==
    LET found == SelectSeq(AllPairs(Len(c)),
                           LAMBDA pr : separation2(c[pr[1]], c[pr[2]]) <= limit2)
    IN  [idx1 |-> [k \in 1..Len(found) |-> found[k][1]],
         idx2 |-> [k \in 1..Len(found) |-> found[k][2]]]

SelectAt(seq, mask) ==
    LET kept == SelectSeq([k \in 1..Len(seq) |-> k], LAMBDA k : mask[k])
    IN  [k \in 1..Len(kept) |-> seq[kept[k]]]

\* blend_indices keeping every index the search returned
blend_indices_All(idx1, idx2) == idx1

\* idx = (idx1 != idx2); idx1 = idx1[idx]
blend_indices(idx1, idx2) ==
    SelectAt(idx1, [k \in 1..Len(idx1) |-> idx1[k] # idx2[k]])

\* data.drop(data.index[idx1], axis=0): the rows of data, each with its index
\* label, whose label is not among those at the positions idx1
drop(data, idx1) ==
    LET labels == {data[idx1[k]].index : k \in 1..Len(idx1)}
    IN  SelectSeq(data, LAMBDA row : row.index \notin labels)

\* pd.DataFrame({'ra': ..., 'dec': ..., 'type': ...}): a fresh RangeIndex
DataFrame(catalogue) ==
    [i \in 1..Len(catalogue) |-> [index |-> i, ra |-> catalogue[i].ra,
                                  dec |-> catalogue[i].dec]]

InitBlend ==
    /\ NormIdle /\ OnehotIdle /\ runs = <<>> /\ EvalIdle
    /\ gen = <<>>
    /\ \E catalogue \in Catalogues :
          blend = [pc |-> "search", catalogue |-> catalogue,
                   data |-> DataFrame(catalogue), idx1 |-> <<>>, idx2 |-> <<>>]

\* c = SkyCoord(...); idx1, idx2, sep2, dist3 = search_around_sky(c, c, ...)
SearchCell ==
    /\ blend # <<>> /\ blend.pc = "search"
    /\ LET found == search_around_sky(blend.data, seplimit2)
       IN  blend' = [blend EXCEPT !.pc = "filter", !.idx1 = found.idx1,
                                  !.idx2 = found.idx2]
    /\ UNCHANGED <<normVars, onehotVars, runs, evalVars, gen>>

\* idx = (idx1 != idx2); idx1 = idx1[idx]
FilterCell ==
    /\ blend # <<>> /\ blend.pc = "filter"
    /\ blend' = [blend EXCEPT !.pc = "drop",
                              !.idx1 = blend_indices(blend.idx1, blend.idx2)]
    /\ UNCHANGED <<normVars, onehotVars, runs, evalVars, gen>>

\* data.drop(data.index[idx1], axis=0, inplace=True)
DropCell ==
    /\ blend # <<>> /\ blend.pc = "drop"
    /\ blend' = [blend EXCEPT !.pc = "done", !.data = drop(blend.data, blend.idx1)]
    /\ UNCHANGED <<normVars, onehotVars, runs, evalVars, gen>>

NextBlend == SearchCell \/ FilterCell \/ DropCell

SpecBlend == InitBlend /\ [][NextBlend]_vars

(***************************************************************************)
(* Properties.                                                             *)
(***************************************************************************)
\* the table the normalisation notebook persisted as artifact t
PersistedTable(t) ==
    IF t = 0 THEN gal_star
    ELSE NormalizeTable(t, gal_star, min_pixel_all[1], max_pixel_all[1])

\* the rows of artifact t as they stand in the file
FileRows(t) == [i \in 1..Len(csv[t]) |-> [j \in 1..Len(csv[t][i]) |-> ParseFloat(csv[t][i][j])]]

\* C1: every table the evaluation stage loads holds the N rows the
\* normalisation stage wrote, in the same order, each with its label and its
\* feature vector.
C1_RoundTrip ==
    pc = "loaded" => \A t \in 0..5 : data_files[t] = PersistedTable(t)

\* what the code does instead: the first written row is taken as the header
C1_FirstRowLost ==
    pc = "loaded" => \A t \in 0..5 : data_files[t] = Tail(PersistedTable(t))

\* C2: technique 1 on a sample with a zero pixel raises DomainError and no
\* row for that sample is written to the technique-1 artifact.
C2_ZeroPixelRaises ==
    \A i \in 1..Len(gal_star) :
        (num >= 1 /\ Zero \in Range(Tail(gal_star[i])))
            => (error = "DomainError" /\ Len(csv[1]) < i)

\* C3: technique 2 on a constant sample raises DomainError, and no
\* non-finite result of a division by zero is ever in a persisted table
\* (techniques 2 to 5 divide).
C3_ConstantSampleRaises ==
    /\ \A i \in 1..Len(gal_star) :
          (num >= 2 /\ Cardinality(Range(Tail(gal_star[i]))) = 1)
              => error = "DomainError"
    /\ \A t \in written \cap 2..5 : \A i \in 1..Len(csv[t]) :
          \A j \in 1..Len(csv[t][i]) : IsFinite(ParseFloat(csv[t][i][j]))

\* C4: generate_onehot_value maps a sequence of labels from {0, 1} to a
\* sequence of the same length and order, 0 to [1, -1] and 1 to [-1, 1].
C4_OnehotMaps ==
    (returned /\ Range(values) \subseteq {Zero, One}) =>
        /\ Len(onehot) = Len(values)
        /\ \A i \in 1..Len(values) :
              onehot[i] = IF values[i] = Zero THEN <<1, 0 - 1>> ELSE <<0 - 1, 1>>

C4_Witness ==
    /\ returned
    /\ Len(values) >= 3
    /\ Range(values) = {Zero, One}

\* C5: generate_onehot_value does not return normally for a sequence that
\* holds a label outside {0, 1}.
C5_BadLabelRejected ==
    returned => Range(values) \subseteq {Zero, One}

\* C6: no row of the raw table comes from a file whose name carries neither
\* the star nor the galaxy prefix.
WellFormedName(file) == StartsWith(file, Str_star) \/ StartsWith(file, Str_galaxy)

C6_MalformedNeverLabelled ==
    \A i \in 1..Len(gal_star) : WellFormedName(cutout_files[i])

\* C7: two runs over the same set of cutout files end with the same row
\* order, whatever order the directory listing had in each.
C7_SameOrder ==
    (runs[1].pc = "done" /\ runs[2].pc = "done")
        => runs[1].cutout_files = runs[2].cutout_files

\* C8: every persisted norm_t table has as many rows as the raw table, and
\* its row i has the label of raw row i and technique t of raw row i's
\* features.
C8_SharedRowOrder ==
    \A t \in written \ {0} :
        LET raw == FileRows(0)
            norm == FileRows(t)
        IN  /\ 0 \in written
            /\ Len(norm) = Len(raw)
            /\ \A i \in 1..Len(norm) :
                  /\ norm[i][1] = raw[i][1]
                  /\ Tail(norm[i]) =
                        technique(t, Tail(raw[i]), min_pixel_all[1], max_pixel_all[1])

C8_Witness ==
    /\ written = 0..5
    /\ Len(csv[0]) = 2
    /\ FileRows(0)[1][1] # FileRows(0)[2][1]
    /\ FileRows(0)[1] # FileRows(3)[1]

\* a value in the closed interval [0, 1]
InUnitInterval(x) == IsRat(x) /\ 0 <= x.n /\ x.n <= x.d

\* C9: every value of a norm_2 or norm_3 output lies in [0, 1].
C9_UnitInterval ==
    \A t \in written \cap {2, 3} : \A i \in 1..Len(csv[t]) :
        \A j \in 2..Len(csv[t][i]) : InUnitInterval(FileRows(t)[i][j])

\* C10 as stated: norm_1 and norm_2 give the shared sample the same output
\* in both corpora, and norm_3 a different one whenever the corpora differ
\* in their global minimum or maximum.
BothDone == runs[1].pc = "done" /\ runs[2].pc = "done"
SampleOut(r, t) == Tail(runs[r].tables[t][1])
ExtremaDiffer ==
    \/ runs[1].min_pixel_all # runs[2].min_pixel_all
    \/ runs[1].max_pixel_all # runs[2].max_pixel_all
SampleConstant == Cardinality(Range(Tail(runs[1].gal_star[1]))) = 1

C10_Original ==
    BothDone =>
        /\ SampleOut(1, 1) = SampleOut(2, 1)
        /\ SampleOut(1, 2) = SampleOut(2, 2)
        /\ ExtremaDiffer => SampleOut(1, 3) # SampleOut(2, 3)

\* C10 amended: norm_3 differs whenever the extrema differ and the sample
\* is not constant.
C10_CorpusDependence ==
    BothDone =>
        /\ SampleOut(1, 1) = SampleOut(2, 1)
        /\ SampleOut(1, 2) = SampleOut(2, 2)
        /\ (ExtremaDiffer /\ ~SampleConstant) => SampleOut(1, 3) # SampleOut(2, 3)

C10_Witness ==
    /\ BothDone
    /\ ExtremaDiffer
    /\ ~SampleConstant
    /\ SampleOut(1, 3) # SampleOut(2, 3)
    /\ IsFinite(SampleOut(1, 2)[1])

\* the integer pixel values of a raw table
PixelInts(table) ==
    {table[i][j].n : i \in 1..Len(table), j \in 2..(ImageShape[1] * ImageShape[2] + 1)}

Least(S) == CHOOSE a \in S : \A b \in S : a <= b
Greatest(S) == CHOOSE a \in S : \A b \in S : b <= a

\* (x - m) / (M - m) for integers, 0/0 being nan
C11_Quotient(x, m, M) == IF M = m THEN NaN ELSE Rat(x - m, M - m)

\* C11: every value of the persisted norm_3 table is (x[i] - m) / (M - m),
\* m and M being the smallest and the largest pixel over all pixels of all
\* samples of the corpus.
C11_Norm3Formula ==
    3 \in written =>
        LET out == FileRows(3)
            m == Least(PixelInts(gal_star))
            M == Greatest(PixelInts(gal_star))
        IN  \A i \in 1..Len(gal_star) : \A j \in 2..Len(gal_star[i]) :
                out[i][j] = C11_Quotient(gal_star[i][j].n, m, M)

\* two samples, the first one without the corpus minimum and with a value
\* strictly between 0 and 1
C11_Witness ==
    /\ 3 \in written
    /\ Len(gal_star) = 2
    /\ Min(Tail(gal_star[1])) # min_pixel_all[1]
    /\ \E j \in 2..Len(gal_star[1]) :
          LET v == FileRows(3)[1][j] IN IsRat(v) /\ 0 < v.n /\ v.n < v.d

\* (x - lo) / M for integers with x >= lo: x / 0 is nan for x = lo and inf
\* above it
C12_Quotient(x, lo, M) ==
    IF M = 0 THEN (IF x = lo THEN NaN ELSE PosInf) ELSE Rat(x - lo, M)

\* C12: every value of the persisted norm_4 table is (x[i] - min(x)) / M,
\* min(x) being the smallest pixel of that sample alone and M the largest
\* pixel over the whole corpus.
C12_Norm4Formula ==
    4 \in written =>
        LET out == FileRows(4)
            M == Greatest(PixelInts(gal_star))
        IN  \A i \in 1..Len(gal_star) : \A j \in 2..Len(gal_star[i]) :
                out[i][j] =
                    C12_Quotient(gal_star[i][j].n,
                                 Least({gal_star[i][k].n : k \in 2..Len(gal_star[i])}), M)

\* two samples, the first one with a minimum and a maximum of its own
C12_Witness ==
    /\ 4 \in written
    /\ Len(gal_star) = 2
    /\ Min(Tail(gal_star[1])) # min_pixel_all[1]
    /\ Max(Tail(gal_star[1])) # max_pixel_all[1]
    /\ \E j \in 2..Len(gal_star[1]) :
          LET v == FileRows(4)[1][j] IN IsRat(v) /\ v.n # 0

\* C13: each technique returns as many values as the sample has pixels, and
\* every row of every persisted table has 1 + P fields, P the number of
\* pixels of a cutout.
C13_RowLength ==
    \A t \in written : \A i \in 1..Len(csv[t]) :
        /\ Len(csv[t][i]) = 1 + ImageShape[1] * ImageShape[2]
        /\ t # 0 =>
              Len(technique(t, Tail(gal_star[i]), min_pixel_all[1], max_pixel_all[1]))
                  = Len(Tail(gal_star[i]))

\* all six tables written, for a sample log10 has no value for
C13_Witness ==
    /\ written = 0..5
    /\ Len(csv[1]) = 2
    /\ \E j \in 2..Len(gal_star[1]) : gal_star[1][j].n <= 0

\* C14: the first field of every row of every persisted table is the label
\* the flatten loop gave the row, and it is 0 or 1.
C14_LabelKept ==
    \A t \in written :
        LET rows == FileRows(t)
        IN  /\ Len(rows) = Len(gal_star)
            /\ \A i \in 1..Len(rows) :
                  /\ rows[i][1] \in {Zero, One}
                  /\ rows[i][1] = gal_star[i][1]

\* all six tables written for a star and a galaxy, the galaxy with a
\* normalised value that is no label
C14_Witness ==
    /\ written = 0..5
    /\ Len(csv[5]) = 2
    /\ {FileRows(5)[1][1], FileRows(5)[2][1]} = {Zero, One}
    /\ \E i \in 1..2 : FileRows(2)[i][1] = One /\ FileRows(2)[i][2] # One

\* the least integer not below r * n
C15_Ceiling(n, r) ==
    CHOOSE k \in 0..n : k * r[2] >= r[1] * n /\ (k = 0 \/ (k - 1) * r[2] < r[1] * n)

\* the integers at most one half away from r * n: what rounding r * n can
\* give, whichever way a tie goes
C15_Rounded(n, r) ==
    {k \in 0..n : Abs(2 * k * r[2] - 2 * r[1] * n) <= r[2]}

\* train and test hold every row position 0..n-1 once
C15_Partition(result, n) ==
    /\ Range(result.train) \cap Range(result.test) = {}
    /\ Range(result.train) \cup Range(result.test) = 0..(n - 1)
    /\ Len(result.train) + Len(result.test) = n

\* C15 as stated: for every N, ratio and seed the split is a partition of
\* the row positions with round(r * N) test rows.
C15_Original ==
    (trial.pc # "call" /\ trial.test_size \in Range(test_size_values)) =>
        LET n == Len(trial.truth_labels)
        IN  /\ trial.result.error # "ValueError"
            /\ C15_Partition(trial.result, n)
            /\ Len(trial.result.test) \in C15_Rounded(n, trial.test_size)

\* C15 amended: the test set has ceil(r * N) rows; when that leaves no train
\* row the split raises ValueError, else it is a partition of the row
\* positions.
C15_SplitPartition ==
    (trial.pc # "call" /\ trial.test_size \in Range(test_size_values)) =>
        LET n == Len(trial.truth_labels)
            n_test == C15_Ceiling(n, trial.test_size)
        IN  IF n_test = n
            THEN /\ trial.result.error = "ValueError"
                 /\ trial.result.train = <<>> /\ trial.result.test = <<>>
            ELSE /\ trial.result.error # "ValueError"
                 /\ C15_Partition(trial.result, n)
                 /\ Len(trial.result.test) = n_test
                 /\ Len(trial.result.train) = n - n_test

\* a split of four rows or more whose test set is larger than r * N rounded
C15_Witness ==
    /\ trial.pc = "returned"
    /\ trial.test_size \in Range(test_size_values)
    /\ Len(trial.truth_labels) >= 4
    /\ Len(trial.result.test) >= 2
    /\ Len(trial.result.test) \notin C15_Rounded(Len(trial.truth_labels), trial.test_size)

\* the test rows whose predicted class (the larger response, the star class
\* on a tie) is the row's label
C18_Matches ==
    Cardinality({k \in 1..Len(trial.result.test) :
        LET p == trial.result.surrogate_predictions[k]
        IN  (IF p[2] > p[1] THEN One ELSE Zero)
                = trial.truth_labels[trial.result.test[k] + 1]})

\* C18 as stated: the accuracy run_classifier returns is matches / |test|.
C18_Original ==
    trial.pc = "returned" =>
        trial.result.accuracy = <<Rat(C18_Matches, Len(trial.result.test))>>

\* C18 amended: the accuracy run_classifier returns is the percentage
\* 100 * matches / |test|.
C18_AccuracyPercent ==
    trial.pc = "returned" =>
        trial.result.accuracy = <<Rat(100 * C18_Matches, Len(trial.result.test))>>

\* three test rows of which some but not all match, one prediction a tie
C18_Witness ==
    /\ trial.pc = "returned"
    /\ Len(trial.result.test) = 3
    /\ C18_Matches \in {1, 2}
    /\ <<0, 0>> \in Range(trial.result.surrogate_predictions)
    /\ Range(trial.truth_labels) = {Zero, One}

\* C16: in the single-run loop every dataset is split at the same row
\* positions, and the counts of stars and galaxies printed for the training
\* and the test set are the same for all datasets.
C16_SameSplit ==
    \A i, j \in 1..Len(single.printed) :
        /\ single.printed[i].train_rows = single.printed[j].train_rows
        /\ single.printed[i].test_rows = single.printed[j].test_rows
        /\ single.printed[i].train = single.printed[j].train
        /\ single.printed[i].test = single.printed[j].test

\* the six datasets done for a corpus whose loaded rows are of both classes
\* and whose tables differ
C16_Witness ==
    /\ single.pc = "done"
    /\ Len(single.printed) = 6
    /\ Len(data_files[0]) >= 3
    /\ single.printed[6].train \in {<<1, 0>>, <<0, 1>>}
    /\ single.printed[6].test = <<1, 1>>
    /\ data_files[0] # data_files[2]

C19_MeanOf(cell) == Div(SumOf([i \in 1..Len(cell) |-> cell[i].accuracy]), Num(num_runs))

\* C19: a mean joins the report only when the num_runs trials of its cell
\* are done, it is the arithmetic mean of their accuracies, all of them
\* obtained with the cell's table and ratio; and a sweep that displays its
\* report has called the classifier len(data_files) * len(test_size_values)
\* * num_runs times and reports one mean per table and ratio.
C19_CellMeans ==
    /\ [][Len(sweep'.all_acc_dataset) > Len(sweep.all_acc_dataset) =>
            /\ sweep.idx > num_runs
            /\ Len(sweep.cell) = num_runs
            /\ \A i \in 1..Len(sweep.cell) :
                  /\ sweep.cell[i].table = SweepTables[sweep.d]
                  /\ sweep.cell[i].test_size = SweepSizes[sweep.s]
            /\ sweep'.all_acc_dataset
                  = Append(sweep.all_acc_dataset, C19_MeanOf(sweep.cell))]_vars
    /\ [](sweep.pc = "done" =>
            /\ sweep.calls = Len(SweepTables) * Len(SweepSizes) * num_runs
            /\ sweep.pbar = sweep.calls
            /\ Len(sweep.accuracies) = 1 + Len(SweepTables)
            /\ \A c \in 1..Len(sweep.accuracies) :
                  Len(sweep.accuracies[c].values) = Len(SweepSizes))

\* the report displayed, with a mean that is none of its trials' accuracies
C19_Witness ==
    /\ sweep.pc = "done"
    /\ \E c \in 2..Len(sweep.accuracies) :
          \E v \in Range(sweep.accuracies[c].values) : v \notin {Zero, Num(100)}

\* C20: a failure of the classifier in one trial does not stop the sweep.
C20_FailureIsolated ==
    ~(sweep.pc = "failed" /\ sweep.error = "ClassifierError")

\* C21: whenever an artifact's path holds a file, the file is the complete
\* table: an interrupted write leaves the path with the previous artifact
\* or none.
C21_NoPartialArtifact ==
    \A t \in written : csv[t] = to_csv(PersistedTable(t))

\* the value of a test_size lies in the open interval (0, 1)
C22_InsideUnit(test_size) ==
    Len(test_size) = 2 /\ 0 < test_size[1] /\ test_size[1] < test_size[2]

\* C22: a call of run_classifier with a ratio outside (0, 1) is rejected:
\* it raises at the split, no split is produced and the classifier is not
\* called.
C22_BadRatioRejected ==
    (trial.pc # "call" /\ ~C22_InsideUnit(trial.test_size)) =>
        /\ trial.pc = "raised"
        /\ trial.result.error = "ValueError"
        /\ trial.result.train = <<>> /\ trial.result.test = <<>>
        /\ trial.result.surrogate_predictions = <<>>

\* C25: once a technique has been applied, min_pixel_all and max_pixel_all
\* are the extrema over the pixels of all samples, the flatten loop being
\* done; and once bound they are never changed.
C25_StatsBeforeUse ==
    /\ [](num >= 1 =>
            /\ idx = Len(cutout_files)
            /\ Len(gal_star) = Len(cutout_files)
            /\ min_pixel_all = <<Num(Least(PixelInts(gal_star)))>>
            /\ max_pixel_all = <<Num(Greatest(PixelInts(gal_star)))>>)
    /\ [][/\ min_pixel_all # <<>> => min_pixel_all' = min_pixel_all
          /\ max_pixel_all # <<>> => max_pixel_all' = max_pixel_all]_vars

\* the tables loaded after the five techniques ran over two samples, the
\* last of which holds neither the corpus minimum nor the corpus maximum
C25_Witness ==
    /\ pc = "loaded"
    /\ Len(gal_star) = 2
    /\ min_pixel[2] # min_pixel_all[1]
    /\ max_pixel[2] # max_pixel_all[1]

\* C27: once the raw table is written, its rows labelled 1 are as many as
\* the galaxy count printed by the listing cell, its rows labelled 0 as many
\* as the star count, and every row has the label of its own file name.
C27_CountsAgree ==
    0 \in written =>
        /\ CountOf(LabelColumn(gal_star), One) = gals
        /\ CountOf(LabelColumn(gal_star), Zero) = stars
        /\ \A i \in 1..Len(gal_star) :
              gal_star[i][1] = IF StartsWith(cutout_files[i], Str_gal) THEN One ELSE Zero

\* a finite value that is not negative
C28_FiniteNonNegative(x) == IsFinite(x) /\ Sign(x) >= 0

\* C28: when every pixel of the corpus is strictly positive, every value of
\* the persisted norm_5 table is finite and not negative, and the divisor
\* log10(max_pixel_all) is positive.
C28_Norm5Finite ==
    (5 \in written /\ \A p \in PixelInts(gal_star) : p > 0) =>
        /\ Sign(Log10(max_pixel_all[1])) > 0
        /\ \A i \in 1..Len(csv[5]) : \A j \in 2..Len(csv[5][i]) :
              C28_FiniteNonNegative(FileRows(5)[i][j])

\* C29 as stated: when max_pixel_all > 0, every value of the persisted
\* norm_4 table lies in [0, 1] and the smallest value of every row is 0.
C29_Original ==
    (4 \in written /\ Sign(max_pixel_all[1]) > 0) =>
        \A i \in 1..Len(csv[4]) :
            LET out == Tail(FileRows(4)[i])
            IN  /\ \A j \in 1..Len(out) : InUnitInterval(out[j])
                /\ Zero \in Range(out)

\* C29 amended: the same for the samples that hold no negative pixel.
C29_Norm4Range ==
    (4 \in written /\ Sign(max_pixel_all[1]) > 0) =>
        \A i \in 1..Len(csv[4]) :
            (\A j \in 2..Len(gal_star[i]) : gal_star[i][j].n >= 0) =>
                LET out == Tail(FileRows(4)[i])
                IN  /\ \A j \in 1..Len(out) : InUnitInterval(out[j])
                    /\ Zero \in Range(out)

\* two samples without negative pixels, the first with a smallest pixel
\* above the corpus minimum and a value strictly between 0 and 1
C29_Witness ==
    /\ 4 \in written
    /\ Len(gal_star) = 2
    /\ \A p \in PixelInts(gal_star) : p >= 0
    /\ Min(Tail(gal_star[1])) # min_pixel_all[1]
    /\ \E j \in 2..Len(gal_star[1]) :
          LET v == FileRows(4)[1][j] IN IsRat(v) /\ 0 < v.n /\ v.n < v.d

\* C30: once the flatten cell has written raw_image_data.csv, however often
\* it was executed since the accumulators were initialised, the file has one
\* row per cutout file, and min_pixel_all and max_pixel_all, once computed,
\* are the least and the greatest pixel of the corpus
C30_FlattenIdempotent ==
    (0 \in written /\ pc \in {"stats", "normalize", "read"}) =>
        /\ Len(csv[0]) = Len(cutout_files)
        /\ min_pixel_all # <<>> =>
              /\ min_pixel_all[1] = Min([i \in 1..Len(cutout_files) |->
                                          Min(flatten(ImageOf(dir, cutout_files[i])))])
              /\ max_pixel_all[1] = Max([i \in 1..Len(cutout_files) |->
                                          Max(flatten(ImageOf(dir, cutout_files[i])))])

\* the last 20 of a sequence of 20 or 21 positions
C23_Last20(seq) == SubSeq(seq, Len(seq) - 19, Len(seq))

\* C23: every image save_image writes is 20 x 20, a 21-long side corrected
\* by dropping its first row or column; a fetched cutout with a side below
\* 20 or above 21 writes no file, appends nothing to plot_data and leaves
\* num unchanged
C23_SaveImage ==
    [][(gen # <<>> /\ gen' # <<>> /\ gen'.fetched # <<>>) =>
          LET fetched == gen'.fetched[1]
              skipped == \E s \in Range(shape(fetched)) : s < 20 \/ s > 21
          IN  /\ skipped => /\ gen'.writes = gen.writes
                            /\ gen'.plot_data = gen.plot_data
                            /\ gen'.num = gen.num
              /\ ~skipped =>
                    /\ Len(gen'.writes) = Len(gen.writes) + 1
                    /\ LET image == gen'.writes[Len(gen'.writes)].image
                       IN  /\ shape(image) = <<20, 20>>
                           /\ image.rows = C23_Last20(fetched.rows)
                           /\ image.cols = C23_Last20(fetched.cols)
              /\ \A w \in Range(gen'.writes) : shape(w.image) = <<20, 20>>]_vars

\* a 21 x 20 cutout was written without its first row, and a 19-wide one was
\* skipped after it
C23_Witness ==
    /\ gen # <<>>
    /\ gen.fetched # <<>> /\ shape(gen.fetched[1]) = <<20, 19>>
    /\ Len(gen.writes) = 1
    /\ gen.writes[1].image.rows = Tail(Positions(21))
    /\ gen.writes[1].image.cols = Positions(20)

\* the files written for a type, in the order written
C24_FilesOf(type) == SelectSeq(gen.writes, LAMBDA w : w.obj_type = type)

\* C24: in the loop of a type, num is the number of files saved for the type,
\* the k-th file saved carries the number k - 1, num is at most num_cutouts
\* and an object is queried only while num is below num_cutouts
C24_CounterIsFiles ==
    /\ [](gen # <<>> /\ gen.pc = "object" =>
            LET files == C24_FilesOf(obj_types[gen.t])
            IN  /\ gen.num = Len(files)
                /\ \A k \in 1..Len(files) : files[k].num = k - 1
                /\ gen.num <= num_cutouts)
    /\ [][(gen # <<>> /\ gen' # <<>> /\ gen'.queried # gen.queried) =>
             gen.num < num_cutouts]_vars

\* both types have their num_cutouts files and objects were left unqueried
C24_Witness ==
    /\ gen # <<>> /\ gen.pc = "done"
    /\ Len(C24_FilesOf("star")) = num_cutouts
    /\ Len(C24_FilesOf("galaxy")) = num_cutouts
    /\ Len(gen.queried) < 2 * gen.objects

\* the objects of the catalogue, by index, that have another object of the
\* catalogue within the search radius
C26_Blended ==
    {i \in 1..Len(blend.catalogue) :
        \E j \in 1..Len(blend.catalogue) :
            j # i /\ separation2(blend.catalogue[i], blend.catalogue[j]) <= seplimit2}

====
